---- MODULE Spec2Model ----
(***************************************************************************)
(* A model of the stock-screener backend: the data-access layer (crud.py), *)
(* the credential functions (crud.py), the market-data client              *)
(* (alphavantage.py) and the HTTP handlers that call them (main.py).       *)
(*                                                                         *)
(* Python values are modelled as follows.  A table is the set of its rows  *)
(* (records); a query's .first() is the matching row of least id and       *)
(* .all() the set of matching rows.  An optional string is <<>> (None) or  *)
(* <<s>>.  The outcome of a call is a record: a returned value (None,      *)
(* False, one object, a list of rows) or a raised exception.               *)
(***************************************************************************)
EXTENDS Integers, Sequences, FiniteSets, TLC

VARIABLES users, watchlist, alerts, notes, now, issued, last, made, latest, creds,
          api_key, calls, gathered, resp, requests, order,
          reqs, sess

db == <<users, watchlist, alerts, notes, now, issued, made, latest, creds>>
market == <<api_key, calls, gathered, resp, requests, order>>
web == <<reqs, sess>>
vars == <<db, last, market, web>>

----------------------------------------------------------------------------
(* Bounds and input sets *)

\* the largest row id a table hands out before the model stops inserting
MaxRows == 2
\* the same for the stock_notes table
MaxNotes == 4
\* the clock, in minutes, stops here
MaxTime == 17
\* requests in progress at once
MaxRequests == 2

Emails == {"a@x.com", "b@x.com"}
Passwords == {"pw1", "pw2"}
Salts == {"s1", "s2"}
WatchInputs == { [symbol |-> "AAPL", company_name |-> "Apple Inc."] }
Symbols == {"AAPL", "GOOG"}
NoteTexts == {"first", "second"}
ChatIds == {"12345", "67890"}
BotTokens == {"abc"}
AlertInputs ==
  { [symbol |-> "AAPL", alert_type |-> "RSI_BELOW", threshold |-> 30, is_active |-> TRUE] }

----------------------------------------------------------------------------
(* Python values and outcomes *)

None == <<>>
Some(x) == <<x>>

Return(py, v) == [kind |-> "return", py |-> py, val |-> v, exc |-> "", status |-> 0]
RetNone == Return("None", {})
RetFalse == Return("False", {})
RetObj(r) == Return("obj", {r})
RetList(S) == Return("list", S)
Raise(e, s) == [kind |-> "raise", py |-> "", val |-> {}, exc |-> e, status |-> s]

\* FastAPI's mapping of a handler's (or a dependency's) outcome to a status:
\* a return is 200, an HTTPException carries its status_code, anything else
\* is an unhandled exception, answered 500.
HttpStatus(out) ==
  IF out.kind = "return" THEN 200
  ELSE IF out.exc = "HTTPException" THEN out.status
  ELSE 500

----------------------------------------------------------------------------
(* Storage *)

Ids(table) == {r.id : r \in table}
MaxOf(S) == CHOOSE m \in S : \A n \in S : n <= m
MinOf(S) == CHOOSE m \in S : \A n \in S : m <= n

\* Integer primary key: the engine assigns the next row id.
NextId(table) == IF table = {} THEN 1 ELSE MaxOf(Ids(table)) + 1

\* Query.first(): None, or the first matching row
First(rows) ==
  IF rows = {} THEN RetNone
  ELSE RetObj(CHOOSE r \in rows : r.id = MinOf(Ids(rows)))

----------------------------------------------------------------------------
(* Credential functions *)

\* passlib bcrypt: a salted one-way hash; verify recomputes with the stored salt
get_password_hash(password, salt) ==
  [scheme |-> "bcrypt", salt |-> salt, digest |-> <<"H", salt, password>>]

verify_password(plain_password, hashed_password) ==
  hashed_password.digest = <<"H", hashed_password.salt, plain_password>>

get_user_by_email(usrs, email) == First({u \in usrs : u.email = email})

\* an authenticate that hands back the failed lookup itself (None) for an
\* unknown email
authenticate_user_leaky(usrs, email, password) ==
  LET user == get_user_by_email(usrs, email)
  IN IF user.py # "obj" THEN user
     ELSE IF ~verify_password(password, (CHOOSE u \in user.val : TRUE).hashed_password)
          THEN RetFalse
          ELSE user

\* crud.authenticate_user
authenticate_user(usrs, email, password) ==
  LET user == get_user_by_email(usrs, email)
  IN IF user.py # "obj" THEN RetFalse
     ELSE IF ~verify_password(password, (CHOOSE u \in user.val : TRUE).hashed_password)
          THEN RetFalse
          ELSE user

\* an update that assigns both fields whether supplied or not
update_user_settings_overwrite(usrs, user, settings) ==
  LET new == [user EXCEPT !.telegram_chat_id = settings.telegram_chat_id,
                          !.telegram_bot_token = settings.telegram_bot_token]
  IN [out |-> RetObj(new), users |-> (usrs \ {user}) \cup {new}]

\* crud.update_user_settings; user is a row of the table
update_user_settings(usrs, user, settings) ==
  LET new == [user EXCEPT
                !.telegram_chat_id = IF settings.telegram_chat_id # None
                                     THEN settings.telegram_chat_id ELSE @,
                !.telegram_bot_token = IF settings.telegram_bot_token # None
                                       THEN settings.telegram_bot_token ELSE @]
  IN [out |-> RetObj(new), users |-> (usrs \ {user}) \cup {new}]

\* crud.create_user; the users.email column is unique, so the commit of a
\* second row with the same email raises IntegrityError and adds nothing.
crud_create_user(usrs, email, password, salt) ==
  IF \E u \in usrs : u.email = email
  THEN [out |-> Raise("IntegrityError", 0), users |-> usrs]
  ELSE LET db_user == [id |-> NextId(usrs), email |-> email,
                       hashed_password |-> get_password_hash(password, salt),
                       is_active |-> TRUE,
                       telegram_chat_id |-> None, telegram_bot_token |-> None]
       IN [out |-> RetObj(db_user), users |-> usrs \cup {db_user}]

\* a sign-up handler that forgets to look the email up first
main_create_user_unchecked(usrs, email, password, salt) ==
  crud_create_user(usrs, email, password, salt)

\* main.create_user, POST /users/
main_create_user(usrs, email, password, salt) ==
  IF get_user_by_email(usrs, email).py = "obj"
  THEN [out |-> Raise("HTTPException", 400), users |-> usrs]
  ELSE crud_create_user(usrs, email, password, salt)

----------------------------------------------------------------------------
(* Tokens *)

\* A bearer token as jose sees it: well-formed or not, signed with the
\* process-wide secret or with another key, carrying an optional subject and
\* an expiration time.
Token(fmt, key, sub, exp) == [fmt |-> fmt, key |-> key, sub |-> sub, exp |-> exp]

\* timedelta(minutes=15), the ttl used when none is given
DefaultExpireMinutes == 15

\* config.ACCESS_TOKEN_EXPIRE_MINUTES, the ttl of the tokens POST /token issues
ACCESS_TOKEN_EXPIRE_MINUTES == 30

\* crud.create_access_token at time t; expires_delta is None or <<minutes>>.
\* `if expires_delta:` is false for None and for timedelta(0) alike.
create_access_token(data, expires_delta, t) ==
  LET expire == IF expires_delta # None /\ expires_delta[1] # 0
                THEN t + expires_delta[1]
                ELSE t + DefaultExpireMinutes
  IN Token("jwt", "SECRET_KEY", data.sub, expire)

\* jose.jwt.decode at time t: the payload, or a JWTError for a malformed
\* token, a signature made with another key, or an expiration in the past.
jwt_decode(token, t) ==
  IF token.fmt # "jwt" THEN Raise("JWTError", 0)
  ELSE IF token.key # "SECRET_KEY" THEN Raise("JWTError", 0)
  ELSE IF token.exp < t THEN Raise("JWTError", 0)
  ELSE RetObj([sub |-> token.sub, exp |-> token.exp])

\* The names bound in crud.py's module namespace: its imports and its defs.
crud_globals ==
  { "datetime", "timedelta", "Optional", "Session", "CryptContext", "JWTError",
    "jwt", "models", "schemas", "config", "pwd_context",
    "get_password_hash", "verify_password", "get_user", "get_user_by_email",
    "get_users", "create_user", "authenticate_user", "create_access_token",
    "get_current_user", "get_watchlist_items", "create_watchlist_item",
    "delete_watchlist_item", "get_stock_note", "create_or_update_stock_note",
    "get_alerts", "create_alert", "delete_alert", "update_user_settings" }

\* crud.get_current_user at time t.  Its first statement builds
\* credentials_exception from the names HTTPException and status, which are
\* looked up in crud.py's namespace when the function runs.
get_current_user(usrs, token, t) ==
  IF ~({"HTTPException", "status"} \subseteq crud_globals)
  THEN Raise("NameError", 0)
  ELSE LET credentials_exception == Raise("HTTPException", 401)
           decoded == jwt_decode(token, t)
       IN IF decoded.kind = "raise" THEN credentials_exception
          ELSE LET payload == CHOOSE p \in decoded.val : TRUE
               IN IF payload.sub = None THEN credentials_exception
                  ELSE LET user == get_user_by_email(usrs, payload.sub[1])
                       IN IF user.py = "None" THEN credentials_exception
                          ELSE user

\* main.login_for_access_token, POST /token, at time t
login_for_access_token(usrs, username, password, t) ==
  LET user == authenticate_user(usrs, username, password)
  IN IF user.py # "obj" THEN Raise("HTTPException", 401)
     ELSE LET access_token ==
                create_access_token([sub |-> Some((CHOOSE u \in user.val : TRUE).email)],
                                    Some(ACCESS_TOKEN_EXPIRE_MINUTES), t)
          IN Return("dict", {[access_token |-> access_token, token_type |-> "bearer"]})

----------------------------------------------------------------------------
(* Watchlist and alerts: crud.py *)

\* a listing that forgets the owner filter
get_watchlist_items_unscoped(wl, user_id) == RetList(wl)

get_watchlist_items(wl, user_id) == RetList({r \in wl : r.owner_id = user_id})

create_watchlist_item(wl, item, user_id) ==
  LET db_item == [id |-> NextId(wl), symbol |-> item.symbol,
                  company_name |-> item.company_name, owner_id |-> user_id]
  IN [out |-> RetObj(db_item), table |-> wl \cup {db_item}]

delete_watchlist_item(wl, item_id, user_id) ==
  LET db_item == First({r \in wl : r.id = item_id /\ r.owner_id = user_id})
  IN [out |-> db_item, table |-> IF db_item.py = "obj" THEN wl \ db_item.val ELSE wl]

get_alerts(al, user_id) == RetList({r \in al : r.owner_id = user_id})

create_alert(al, alert, user_id) ==
  LET db_alert == [id |-> NextId(al), symbol |-> alert.symbol,
                   alert_type |-> alert.alert_type, threshold |-> alert.threshold,
                   is_active |-> alert.is_active, owner_id |-> user_id]
  IN [out |-> RetObj(db_alert), table |-> al \cup {db_alert}]

delete_alert(al, alert_id, user_id) ==
  LET db_alert == First({r \in al : r.id = alert_id /\ r.owner_id = user_id})
  IN [out |-> db_alert, table |-> IF db_alert.py = "obj" THEN al \ db_alert.val ELSE al]

\* main.delete_from_watchlist, DELETE /watchlist/{item_id}: the dependency
\* get_current_user runs first; an exception it raises ends the request.
main_delete_from_watchlist(usrs, wl, token, item_id, t) ==
  LET current_user == get_current_user(usrs, token, t)
  IN IF current_user.kind = "raise" THEN [out |-> current_user, table |-> wl]
     ELSE LET uid == (CHOOSE u \in current_user.val : TRUE).id
              r == delete_watchlist_item(wl, item_id, uid)
          IN IF r.out.py = "None"
             THEN [out |-> Raise("HTTPException", 404), table |-> r.table]
             ELSE [out |-> Return("dict", {}), table |-> r.table]

\* main.delete_alert, DELETE /alerts/{alert_id}
main_delete_alert(usrs, al, token, alert_id, t) ==
  LET current_user == get_current_user(usrs, token, t)
  IN IF current_user.kind = "raise" THEN [out |-> current_user, table |-> al]
     ELSE LET uid == (CHOOSE u \in current_user.val : TRUE).id
              r == delete_alert(al, alert_id, uid)
          IN IF r.out.py = "None"
             THEN [out |-> Raise("HTTPException", 404), table |-> r.table]
             ELSE [out |-> Return("dict", {}), table |-> r.table]

----------------------------------------------------------------------------
(* Stock notes: crud.py *)

get_stock_note(nt, user_id, symbol) ==
  First({r \in nt : r.owner_id = user_id /\ r.symbol = symbol})

\* an upsert that forgets the lookup and always inserts
create_or_update_stock_note_insert(nt, user_id, symbol, note_content) ==
  LET new == [id |-> NextId(nt), symbol |-> symbol, note |-> note_content,
              owner_id |-> user_id]
  IN [out |-> RetObj(new), table |-> nt \cup {new}]

create_or_update_stock_note(nt, user_id, symbol, note_content) ==
  LET db_note == get_stock_note(nt, user_id, symbol)
  IN IF db_note.py = "obj"
     THEN LET old == CHOOSE r \in db_note.val : TRUE
              new == [old EXCEPT !.note = note_content]
          IN [out |-> RetObj(new), table |-> (nt \ {old}) \cup {new}]
     ELSE LET new == [id |-> NextId(nt), symbol |-> symbol, note |-> note_content,
                      owner_id |-> user_id]
          IN [out |-> RetObj(new), table |-> nt \cup {new}]

\* crud.create_or_update_stock_note from its lookup on, as its session
\* flushes it at db.commit(): an UPDATE of the note of the row the lookup
\* returned, by primary key, or an INSERT of a new row.  stock_notes has no
\* unique constraint on (owner_id, symbol), so the INSERT is never refused.
write_stock_note(nt, db_note, user_id, symbol, note_content) ==
  IF db_note.py = "obj"
  THEN LET old == CHOOSE r \in db_note.val : TRUE
           new == [old EXCEPT !.note = note_content]
       IN [out |-> RetObj(new),
           table |-> {IF r.id = old.id THEN [r EXCEPT !.note = note_content] ELSE r : r \in nt}]
  ELSE LET new == [id |-> NextId(nt), symbol |-> symbol, note |-> note_content,
                   owner_id |-> user_id]
       IN [out |-> RetObj(new), table |-> nt \cup {new}]

\* the two requests that run at once, each on a session of its own
Sessions == {"A", "B"}

\* a session: where its create_or_update_stock_note is, its arguments, and
\* what its lookup returned
IdleSession ==
  [pc |-> "idle", uid |-> 0, symbol |-> "", note |-> "", db_note |-> RetNone]

----------------------------------------------------------------------------
(* Market data: alphavantage.py and the two handlers of main.py *)

\* os.getenv("ALPHA_VANTAGE_API_KEY") at import: unset, empty, or a key
ApiKeys == {None, Some(""), Some("KEY")}

\* the six calls of the aggregate, in the order they are passed to gather
KindSeq == <<"overview", "earnings", "daily_data", "rsi", "bbands", "news_sentiment">>
Kinds == {KindSeq[i] : i \in DOMAIN KindSeq}

\* the "function" parameter of each call
FunctionOf(k) ==
  CASE k = "overview" -> "OVERVIEW"
    [] k = "earnings" -> "EARNINGS"
    [] k = "daily_data" -> "TIME_SERIES_DAILY"
    [] k = "rsi" -> "RSI"
    [] k = "bbands" -> "BBANDS"
    [] k = "news_sentiment" -> "NEWS_SENTIMENT"
    [] k = "search" -> "SYMBOL_SEARCH"

\* what the upstream may do with one GET
Replies == {"2xx_json", "2xx_not_json", "non_2xx", "network_error"}

\* the upstream's JSON for a call, returned verbatim
Payload(k) == [function |-> FunctionOf(k)]

\* _get_json_async up to its first await: without a key it raises ValueError
\* before a client exists; with one it sends the GET.
get_json_start(key) ==
  IF key = None \/ key = Some("") THEN "ValueError" ELSE "inflight"

\* _get_json_async from the reply on: client.get raises on a network error,
\* raise_for_status on a non-2xx status, response.json() on a body that is
\* not JSON.
get_json_finish(reply) ==
  CASE reply = "network_error" -> "RequestError"
    [] reply = "non_2xx" -> "HTTPStatusError"
    [] reply = "2xx_not_json" -> "JSONDecodeError"
    [] reply = "2xx_json" -> "ok"

Failures == {"ValueError", "JSONDecodeError", "HTTPStatusError", "RequestError"}
\* json.JSONDecodeError is a subclass of ValueError; httpx's errors are not
IsValueError(exc) == exc \in {"ValueError", "JSONDecodeError"}

\* a gather called with return_exceptions=True: it waits for all six and
\* hands the exceptions back among the results
gather_return_exceptions(g, cs) ==
  IF g # None THEN g
  ELSE IF \A k \in Kinds : cs[k] \in Failures \cup {"ok"}
  THEN Some([kind |-> "return", exc |-> "",
             results |-> [i \in DOMAIN KindSeq |->
                            IF cs[KindSeq[i]] = "ok" THEN Payload(KindSeq[i])
                            ELSE [function |-> cs[KindSeq[i]]]]])
  ELSE None

\* asyncio.gather(...) without return_exceptions: its future takes the first
\* exception a task raises, or, once all six are done, their results in
\* argument order.  g is the future so far, cs the tasks after a step.
gather(g, cs) ==
  IF g # None THEN g
  ELSE IF \E k \in Kinds : cs[k] \in Failures
  THEN Some([kind |-> "raise", exc |-> cs[CHOOSE k \in Kinds : cs[k] \in Failures],
             results |-> <<>>])
  ELSE IF \A k \in Kinds : cs[k] = "ok"
  THEN Some([kind |-> "return", exc |-> "",
             results |-> [i \in DOMAIN KindSeq |-> Payload(KindSeq[i])]])
  ELSE None

Response(st, body) == [status |-> st, body |-> body]

\* a handler whose except clauses are in the wrong order
details_response_swapped(g) ==
  IF g.kind = "return"
  THEN Response(200, Some([overview |-> g.results[1], earnings |-> g.results[2],
                           daily_data |-> g.results[3], rsi |-> g.results[4],
                           bbands |-> g.results[5], news_sentiment |-> g.results[6]]))
  ELSE Response(500, None)

\* a handler that unpacks two of the six results into each other's names
details_response_misassigned(g) ==
  IF g.kind = "return"
  THEN Response(200, Some([overview |-> g.results[1], earnings |-> g.results[2],
                           daily_data |-> g.results[3], rsi |-> g.results[5],
                           bbands |-> g.results[4], news_sentiment |-> g.results[6]]))
  ELSE IF IsValueError(g.exc) THEN Response(400, None)
  ELSE Response(500, None)

\* main.get_stock_details_endpoint once the gather is over: the six results
\* unpacked in order into the dict, or the except clauses
details_response(g) ==
  IF g.kind = "return"
  THEN Response(200, Some([overview |-> g.results[1], earnings |-> g.results[2],
                           daily_data |-> g.results[3], rsi |-> g.results[4],
                           bbands |-> g.results[5], news_sentiment |-> g.results[6]]))
  ELSE IF IsValueError(g.exc) THEN Response(400, None)
  ELSE Response(500, None)

\* main.search_stock_endpoint, given how search_stock_async ended
search_response(out) ==
  IF out = "ok" THEN Response(200, Some(Payload("search")))
  ELSE IF IsValueError(out) THEN Response(400, None)
  ELSE Response(500, None)

----------------------------------------------------------------------------
(* Requests and their storage handles: main.get_db *)

Requests == 1 .. MaxRequests

\* whether the route's handler declares db: Session = Depends(get_db)
UsesDb(route) == route # "GET /stock/{symbol}"

Routes ==
  { "POST /users/", "POST /token", "GET /users/{user_id}",
    "DELETE /alerts/{alert_id}", "GET /stock/{symbol}" }

\* how the handler of a route (its other dependencies included) may end
RouteOutcomes(route, usrs, al, t) ==
  CASE route = "POST /users/" -> {Return("obj", {}), Raise("HTTPException", 400)}
    [] route = "POST /token" -> {Return("dict", {}), Raise("HTTPException", 401)}
    [] route = "GET /users/{user_id}" -> {Return("obj", {}), Raise("HTTPException", 404)}
    [] route = "DELETE /alerts/{alert_id}" ->
         {main_delete_alert(usrs, al, Token("garbage", "", None, 0), 1, t).out}
    [] route = "GET /stock/{symbol}" ->
         {Return("dict", {}), Raise("HTTPException", 400), Raise("HTTPException", 500)}
    [] OTHER -> {}

\* a get_db without try/finally: the close is skipped when the handler raises
get_db_no_finally(out) ==
  IF out.kind = "return" THEN <<"db.close()">> ELSE <<>>

\* main.get_db from its yield on: what runs when the request ends.  The
\* close is in a finally clause, so it runs after a return and after an
\* exception alike.
get_db_after_yield(out) ==
  IF out.kind = "return" THEN <<"db.close()">> ELSE <<"db.close()">>

\* a request: where it is, how its handler ended, and how many times its
\* storage handle was opened and closed
IdleRequest == [pc |-> "idle", route |-> "", out |-> RetNone, opened |-> 0, closed |-> 0]

----------------------------------------------------------------------------
(* State, and the operations as actions *)

\* what the most recent operation was and how it ended: uid is the acting
\* user's id, id the row id it named, status the HTTP status of an endpoint
\* (0 for a direct call of the data layer)
Last(op, uid, id, out, st) ==
  [op |-> op, uid |-> uid, id |-> id, str |-> <<>>, opt |-> <<>>, out |-> out, status |-> st]
\* the same for an operation whose arguments are strings (str) or optional
\* strings (opt)
LastStr(op, uid, str, opt, out, st) ==
  [op |-> op, uid |-> uid, id |-> 0, str |-> str, opt |-> opt, out |-> out, status |-> st]

Init ==
  /\ users = {}
  /\ watchlist = {}
  /\ alerts = {}
  /\ now = 0
  /\ last = Last("init", 0, 0, RetNone, 0)
  /\ made = [wl |-> {}, al |-> {}]
  /\ notes = {}
  /\ latest = {}
  /\ creds = {}
  /\ issued = None
  /\ api_key \in ApiKeys
  /\ calls = [k \in Kinds |-> "idle"]
  /\ gathered = None
  /\ resp = None
  /\ requests = {}
  /\ order = <<>>
  /\ reqs = [r \in Requests |-> IdleRequest]
  /\ sess = [s \in Sessions |-> IdleSession]

\* History, kept by the callers and not by the storage: made.wl and made.al
\* hold <<id, uid>> for every row a caller uid was handed at creation and has
\* not since been handed back by a delete.
Made(m, kind, out, uid) ==
  IF out.py = "obj" THEN [m EXCEPT ![kind] = @ \cup {<<r.id, uid>> : r \in out.val}] ELSE m
Unmade(m, kind, out, uid) ==
  IF out.py = "obj" THEN [m EXCEPT ![kind] = @ \ {<<r.id, uid>> : r \in out.val}] ELSE m

UserIds == Ids(users)
RowIds == 1 .. (MaxRows + 1)

\* the token POST /token issues at time t to the user with this email
LoginToken(email, t) ==
  create_access_token([sub |-> Some(email)], Some(ACCESS_TOKEN_EXPIRE_MINUTES), t)

\* POST /users/
\* creds is history kept by the callers: the <<email, password>> of every
\* registration that was answered with the new user.
RegisterUser(email, password, salt) ==
  LET r == main_create_user(users, email, password, salt)
  IN /\ users' = r.users
     /\ last' = LastStr("POST /users/", 0, <<email, password>>, <<>>, r.out, HttpStatus(r.out))
     /\ creds' = IF r.out.kind = "return" THEN creds \cup {<<email, password>>} ELSE creds
     /\ UNCHANGED <<watchlist, alerts, notes, now, issued, made, latest, market, web>>

AddWatch(uid, item) ==
  /\ NextId(watchlist) <= MaxRows
  /\ LET r == create_watchlist_item(watchlist, item, uid)
     IN /\ watchlist' = r.table
        /\ last' = Last("create_watchlist_item", uid, 0, r.out, 0)
        /\ made' = Made(made, "wl", r.out, uid)
  /\ UNCHANGED <<users, alerts, notes, now, issued, latest, creds, market, web>>

DelWatch(uid, id) ==
  /\ LET r == delete_watchlist_item(watchlist, id, uid)
     IN /\ watchlist' = r.table
        /\ last' = Last("delete_watchlist_item", uid, id, r.out, 0)
        /\ made' = Unmade(made, "wl", r.out, uid)
  /\ UNCHANGED <<users, alerts, notes, now, issued, latest, creds, market, web>>

ListWatch(uid) ==
  /\ last' = Last("get_watchlist_items", uid, 0, get_watchlist_items(watchlist, uid), 0)
  /\ UNCHANGED <<users, watchlist, alerts, notes, now, issued, made, latest, creds, market, web>>

AddAlert(uid, alert) ==
  /\ NextId(alerts) <= MaxRows
  /\ LET r == create_alert(alerts, alert, uid)
     IN /\ alerts' = r.table
        /\ last' = Last("create_alert", uid, 0, r.out, 0)
        /\ made' = Made(made, "al", r.out, uid)
  /\ UNCHANGED <<users, watchlist, notes, now, issued, latest, creds, market, web>>

DelAlert(uid, id) ==
  /\ LET r == delete_alert(alerts, id, uid)
     IN /\ alerts' = r.table
        /\ last' = Last("delete_alert", uid, id, r.out, 0)
        /\ made' = Unmade(made, "al", r.out, uid)
  /\ UNCHANGED <<users, watchlist, notes, now, issued, latest, creds, market, web>>

ListAlerts(uid) ==
  /\ last' = Last("get_alerts", uid, 0, get_alerts(alerts, uid), 0)
  /\ UNCHANGED <<users, watchlist, alerts, notes, now, issued, made, latest, creds, market, web>>

\* DELETE /watchlist/{item_id} by the registered user u, bearing the token
\* the login issued to u
DelWatchEndpoint(u, id) ==
  /\ LET r == main_delete_from_watchlist(users, watchlist, LoginToken(u.email, now), id, now)
     IN /\ watchlist' = r.table
        /\ last' = Last("DELETE /watchlist/{item_id}", u.id, id, r.out, HttpStatus(r.out))
        /\ made' = IF r.out.kind = "return" THEN [made EXCEPT !.wl = @ \ {<<id, u.id>>}] ELSE made
  /\ UNCHANGED <<users, alerts, notes, now, issued, latest, creds, market, web>>

\* DELETE /alerts/{alert_id} by the registered user u
DelAlertEndpoint(u, id) ==
  /\ LET r == main_delete_alert(users, alerts, LoginToken(u.email, now), id, now)
     IN /\ alerts' = r.table
        /\ last' = Last("DELETE /alerts/{alert_id}", u.id, id, r.out, HttpStatus(r.out))
        /\ made' = IF r.out.kind = "return" THEN [made EXCEPT !.al = @ \ {<<id, u.id>>}] ELSE made
  /\ UNCHANGED <<users, watchlist, notes, now, issued, latest, creds, market, web>>

\* crud.create_or_update_stock_note.  latest is history kept by the caller:
\* <<uid, symbol, content>> of the most recent call for each (uid, symbol).
UpsertNote(uid, symbol, content) ==
  LET r == create_or_update_stock_note(notes, uid, symbol, content)
  IN /\ Cardinality(r.table) <= MaxNotes
     /\ notes' = r.table
     /\ latest' = {l \in latest : ~(l[1] = uid /\ l[2] = symbol)} \cup {<<uid, symbol, content>>}
     /\ last' = LastStr("create_or_update_stock_note", uid, <<symbol>>, <<>>, r.out, 0)
     /\ UNCHANGED <<users, watchlist, alerts, now, issued, made, creds, market, web>>

\* crud.get_stock_note
GetNote(uid, symbol) ==
  /\ last' = LastStr("get_stock_note", uid, <<symbol>>, <<>>, get_stock_note(notes, uid, symbol), 0)
  /\ UNCHANGED <<users, watchlist, alerts, notes, now, issued, made, latest, creds, market, web>>

\* crud.authenticate_user
Authenticate(email, password) ==
  /\ last' = LastStr("authenticate_user", 0, <<email, password>>, <<>>,
                     authenticate_user(users, email, password), 0)
  /\ UNCHANGED <<users, watchlist, alerts, notes, now, issued, made, latest, creds, market, web>>

\* POST /token
Login(email, password) ==
  /\ LET out == login_for_access_token(users, email, password, now)
     IN last' = LastStr("POST /token", 0, <<email, password>>, <<>>, out, HttpStatus(out))
  /\ UNCHANGED <<users, watchlist, alerts, notes, now, issued, made, latest, creds, market, web>>

\* crud.update_user_settings for the stored user u
UpdateSettings(u, chat, bot) ==
  LET r == update_user_settings(users, u, [telegram_chat_id |-> chat, telegram_bot_token |-> bot])
  IN /\ users' = r.users
     /\ last' = LastStr("update_user_settings", u.id, <<>>, <<chat, bot>>, r.out, 0)
     /\ UNCHANGED <<watchlist, alerts, notes, now, issued, made, latest, creds, market, web>>

\* crud.create_access_token({"sub": email}, ttl) at the current time.
\* issued remembers the token with the time and the ttl it was asked for.
IssueToken(email, ttl) ==
  /\ issued' = Some([token |-> create_access_token([sub |-> Some(email)], ttl, now),
                     email |-> email, t0 |-> now, ttl |-> ttl])
  /\ last' = LastStr("create_access_token", 0, <<email>>, <<ttl>>, RetNone, 0)
  /\ UNCHANGED <<users, watchlist, alerts, notes, now, made, latest, creds, market, web>>

\* the tokens a caller may present: the one issued, and ones that are
\* malformed, signed with another key, without a subject, or long expired
Presented(kind) ==
  CASE kind = "issued" -> issued[1].token
    [] kind = "malformed" -> Token("garbage", "", None, 0)
    [] kind = "forged" -> [issued[1].token EXCEPT !.key = "other"]
    [] kind = "no_sub" -> [issued[1].token EXCEPT !.sub = None]

TokenKinds == {"issued", "malformed", "forged", "no_sub"}

\* crud.get_current_user at the current time
ResolveToken(kind) ==
  /\ issued # None
  /\ last' = LastStr("get_current_user", 0, <<kind>>, <<>>,
                     get_current_user(users, Presented(kind), now), 0)
  /\ UNCHANGED <<users, watchlist, alerts, notes, now, issued, made, latest, creds, market, web>>

\* a minute passes
Tick ==
  /\ now < MaxTime
  /\ now' = now + 1
  /\ last' = Last("tick", 0, 0, RetNone, 0)
  /\ UNCHANGED <<users, watchlist, alerts, notes, issued, made, latest, creds, market, web>>

\* One market-data request is followed at a time: the next one arrives when
\* the last one has been answered and its tasks have ended.
MarketQuiet ==
  /\ \A k \in Kinds : calls[k] \notin {"pending", "inflight"}
  /\ (resp # None \/ \A k \in Kinds : calls[k] = "idle")

\* History of a join that has not failed: the calls that have completed, in
\* the order they completed.  g is the gather's future after the step; once
\* it holds an exception the join is lost and the history is dropped.
Completed(ord, g, k) ==
  IF g # None /\ g[1].kind = "raise" THEN <<>> ELSE Append(ord, k)

\* GET /stock/{symbol} arrives: gather schedules the six calls as tasks.
StartDetails ==
  /\ MarketQuiet
  /\ calls' = [k \in Kinds |-> "pending"]
  /\ gathered' = None
  /\ resp' = None
  /\ requests' = {}
  /\ order' = <<>>
  /\ last' = Last("GET /stock/{symbol}", 0, 0, RetNone, 0)
  /\ UNCHANGED <<db, web, api_key>>

\* the event loop runs task k up to its first await
TaskStart(k) ==
  /\ calls[k] = "pending"
  /\ calls' = [calls EXCEPT ![k] = get_json_start(api_key)]
  /\ requests' = IF calls'[k] = "inflight" THEN requests \cup {FunctionOf(k)} ELSE requests
  /\ gathered' = gather(gathered, calls')
  /\ order' = IF calls'[k] = "inflight" THEN order ELSE Completed(order, gathered', k)
  /\ UNCHANGED <<db, web, last, api_key, resp>>

\* the upstream's reply to task k arrives
TaskFinish(k, reply) ==
  /\ calls[k] = "inflight"
  /\ calls' = [calls EXCEPT ![k] = get_json_finish(reply)]
  /\ gathered' = gather(gathered, calls')
  /\ order' = Completed(order, gathered', k)
  /\ UNCHANGED <<db, web, last, api_key, resp, requests>>

\* the handler resumes from its await and answers
Respond ==
  /\ gathered # None
  /\ resp = None
  /\ resp' = Some(details_response(gathered[1]))
  /\ UNCHANGED <<db, web, last, api_key, calls, gathered, requests, order>>

\* GET /search/stock: one call, awaited by the handler itself
Search(reply) ==
  LET started == get_json_start(api_key)
      out == IF started = "inflight" THEN get_json_finish(reply) ELSE started
  IN /\ MarketQuiet
     /\ last' = LastStr("GET /search/stock", 0, <<out>>, <<>>, RetNone, 0)
     /\ resp' = Some(search_response(out))
     /\ requests' = IF started = "inflight" THEN {FunctionOf("search")} ELSE {}
     /\ calls' = [k \in Kinds |-> "idle"]
     /\ gathered' = None
     /\ order' = <<>>
     /\ UNCHANGED <<db, web, api_key>>

\* a request for a route arrives in slot r
Arrive(r, route) ==
  /\ reqs[r].pc \in {"idle", "done"}
  /\ reqs' = [reqs EXCEPT ![r] = [pc |-> IF UsesDb(route) THEN "get_db" ELSE "handler",
                                  route |-> route, out |-> RetNone,
                                  opened |-> 0, closed |-> 0]]
  /\ UNCHANGED <<db, last, market, sess>>

\* get_db up to its yield: db = SessionLocal()
GetDb(r) ==
  /\ reqs[r].pc = "get_db"
  /\ reqs' = [reqs EXCEPT ![r].pc = "handler", ![r].opened = @ + 1]
  /\ UNCHANGED <<db, last, market, sess>>

\* the handler runs and ends with out
Handler(r, out) ==
  /\ reqs[r].pc = "handler"
  /\ reqs' = [reqs EXCEPT ![r].pc = IF UsesDb(reqs[r].route) THEN "after_yield" ELSE "done",
                          ![r].out = out]
  /\ UNCHANGED <<db, last, market, sess>>

\* get_db resumes after its yield, and the request ends
AfterYield(r) ==
  /\ reqs[r].pc = "after_yield"
  /\ reqs' = [reqs EXCEPT ![r].pc = "done",
                          ![r].closed = @ + Len(get_db_after_yield(reqs[r].out))]
  /\ UNCHANGED <<db, last, market, sess>>

\* a create_or_update_stock_note call starts on session s
BeginUpsert(s, uid, symbol, content) ==
  /\ sess[s].pc = "idle"
  /\ sess' = [sess EXCEPT ![s] = [pc |-> "lookup", uid |-> uid, symbol |-> symbol,
                                  note |-> content, db_note |-> RetNone]]
  /\ UNCHANGED <<db, last, market, reqs>>

\* db_note = get_stock_note(db, user_id, symbol): the session reads the
\* committed rows
LookupNote(s) ==
  /\ sess[s].pc = "lookup"
  /\ sess' = [sess EXCEPT ![s].pc = "write",
                          ![s].db_note = get_stock_note(notes, sess[s].uid, sess[s].symbol)]
  /\ UNCHANGED <<db, last, market, reqs>>

\* the rest of the call: the change is made on the session and committed
CommitNote(s) ==
  LET r == write_stock_note(notes, sess[s].db_note, sess[s].uid, sess[s].symbol, sess[s].note)
  IN /\ sess[s].pc = "write"
     /\ notes' = r.table
     /\ sess' = [sess EXCEPT ![s].pc = "done"]
     /\ last' = LastStr("create_or_update_stock_note", sess[s].uid, <<sess[s].symbol>>,
                        <<>>, r.out, 0)
     /\ UNCHANGED <<users, watchlist, alerts, now, issued, made, latest, creds, market, reqs>>

Next ==
  \/ \E e \in Emails : RegisterUser(e, "pw1", "s1")
  \/ \E uid \in UserIds, item \in WatchInputs : AddWatch(uid, item)
  \/ \E uid \in UserIds, id \in RowIds : DelWatch(uid, id)
  \/ \E uid \in UserIds : ListWatch(uid)
  \/ \E uid \in UserIds, a \in AlertInputs : AddAlert(uid, a)
  \/ \E uid \in UserIds, id \in RowIds : DelAlert(uid, id)
  \/ \E uid \in UserIds : ListAlerts(uid)
  \/ \E u \in users, id \in RowIds : DelWatchEndpoint(u, id)
  \/ \E u \in users, id \in RowIds : DelAlertEndpoint(u, id)

Spec == Init /\ [][Next]_vars

\* the stock notes alone
NextNotes ==
  \/ \E e \in Emails : RegisterUser(e, "pw1", "s1")
  \/ \E uid \in UserIds, sym \in Symbols, c \in NoteTexts : UpsertNote(uid, sym, c)
  \/ \E uid \in UserIds, sym \in Symbols : GetNote(uid, sym)

SpecNotes == Init /\ [][NextNotes]_vars

\* the accounts alone
Optional(S) == {None} \cup {Some(x) : x \in S}

NextUsers ==
  \/ \E e \in Emails, p \in Passwords, s \in Salts : RegisterUser(e, p, s)
  \/ \E e \in Emails, p \in Passwords : Authenticate(e, p)
  \/ \E e \in Emails, p \in Passwords : Login(e, p)
  \/ \E u \in users, c \in Optional(ChatIds), b \in Optional(BotTokens) : UpdateSettings(u, c, b)

SpecUsers == Init /\ [][NextUsers]_vars

\* the tokens alone
TTLs == {None, Some(0), Some(1), Some(2)}

NextAuth ==
  \/ \E e \in Emails : RegisterUser(e, "pw1", "s1")
  \/ \E e \in Emails, ttl \in TTLs : IssueToken(e, ttl)
  \/ \E k \in TokenKinds : ResolveToken(k)
  \/ Tick

SpecAuth == Init /\ [][NextAuth]_vars

\* the market data alone
NextMarket ==
  \/ StartDetails
  \/ \E k \in Kinds : TaskStart(k)
  \/ \E k \in Kinds, reply \in Replies : TaskFinish(k, reply)
  \/ Respond
  \/ \E reply \in Replies : Search(reply)

SpecMarket == Init /\ [][NextMarket]_vars

\* two create_or_update_stock_note calls at once, on separate sessions
NextRace ==
  \/ \E e \in Emails : RegisterUser(e, "pw1", "s1")
  \/ \E s \in Sessions, uid \in UserIds, sym \in Symbols, c \in NoteTexts :
       BeginUpsert(s, uid, sym, c)
  \/ \E s \in Sessions : LookupNote(s)
  \/ \E s \in Sessions : CommitNote(s)

SpecRace == Init /\ [][NextRace]_vars

\* the requests and their storage handles alone.  Once a request has
\* arrived the server goes on with it: each of its steps is weakly fair.
RequestStep(r) ==
  \/ GetDb(r)
  \/ \E out \in RouteOutcomes(reqs[r].route, users, alerts, now) : Handler(r, out)
  \/ AfterYield(r)

NextHandles ==
  \/ \E r \in Requests, route \in Routes : Arrive(r, route)
  \/ \E r \in Requests : RequestStep(r)

SpecHandles ==
  Init /\ [][NextHandles]_vars /\ \A r \in Requests : WF_vars(RequestStep(r))

----------------------------------------------------------------------------
(* Claims about the watchlist and the alerts *)

NoWatchRow(id, uid) == ~ \E r \in watchlist : r.id = id /\ r.owner_id = uid
NoAlertRow(id, uid) == ~ \E r \in alerts : r.id = id /\ r.owner_id = uid

\* The data-layer half of C2: delete_watchlist_item and delete_alert, called
\* for an id that no row of that owner has, return None and change neither
\* table.
C2_DataLayer ==
  [][ /\ (last'.op = "delete_watchlist_item" /\ NoWatchRow(last'.id, last'.uid))
           => (last'.out = RetNone /\ UNCHANGED <<watchlist, alerts>>)
      /\ (last'.op = "delete_alert" /\ NoAlertRow(last'.id, last'.uid))
           => (last'.out = RetNone /\ UNCHANGED <<watchlist, alerts>>) ]_vars

\* C2: deleting watchlist item X or alert X as user U when no row with id X
\* and owner U exists yields not-found (None from the data layer, HTTP 404
\* from the endpoint), no other error, and leaves both tables as they were.
C2_DeleteNotFound ==
  [][ /\ (last'.op = "delete_watchlist_item" /\ NoWatchRow(last'.id, last'.uid))
           => (last'.out = RetNone /\ UNCHANGED <<watchlist, alerts>>)
      /\ (last'.op = "delete_alert" /\ NoAlertRow(last'.id, last'.uid))
           => (last'.out = RetNone /\ UNCHANGED <<watchlist, alerts>>)
      /\ (last'.op = "DELETE /watchlist/{item_id}" /\ NoWatchRow(last'.id, last'.uid))
           => (last'.status = 404 /\ UNCHANGED <<watchlist, alerts>>)
      /\ (last'.op = "DELETE /alerts/{alert_id}" /\ NoAlertRow(last'.id, last'.uid))
           => (last'.status = 404 /\ UNCHANGED <<watchlist, alerts>>) ]_vars

\* C8: get_watchlist_items(U) and get_alerts(U) return exactly the rows that
\* were created for U and not deleted since: all of U's rows, none of
\* another user's.
C8_OwnerScoped ==
  /\ last.op = "get_watchlist_items" =>
       /\ last.out.py = "list"
       /\ last.out.val \subseteq watchlist
       /\ {<<r.id, last.uid>> : r \in last.out.val} = {p \in made.wl : p[2] = last.uid}
       /\ \A r \in last.out.val : r.owner_id = last.uid
  /\ last.op = "get_alerts" =>
       /\ last.out.py = "list"
       /\ last.out.val \subseteq alerts
       /\ {<<r.id, last.uid>> : r \in last.out.val} = {p \in made.al : p[2] = last.uid}
       /\ \A r \in last.out.val : r.owner_id = last.uid

\* a watchlist listing that returned a row while another user's row was in
\* the table, and while a delete had left the other user's alert alone
C8_Witness ==
  /\ last.op = "get_watchlist_items"
  /\ \E r \in last.out.val : r.id > 1
  /\ \E r \in watchlist : r.owner_id # last.uid
  /\ \E p \in made.al : p[1] > 1 /\ p[2] # last.uid /\ Cardinality(alerts) = 1

----------------------------------------------------------------------------
(* Claims about the stock notes *)

NotesOf(nt, uid, sym) == {r \in nt : r.owner_id = uid /\ r.symbol = sym}

\* C1: after any sequence of create_or_update_stock_note calls there is at
\* most one row per (owner, symbol); a pair that was written holds the
\* content of its most recent call; and a call leaves the rows of every
\* other pair as they were.
C1_Upsert ==
  /\ [](/\ \A uid \in UserIds, sym \in Symbols : Cardinality(NotesOf(notes, uid, sym)) <= 1
        /\ \A l \in latest : \E r \in NotesOf(notes, l[1], l[2]) : r.note = l[3])
  /\ [][last'.op = "create_or_update_stock_note" =>
          notes' \ NotesOf(notes', last'.uid, last'.str[1])
            = notes \ NotesOf(notes, last'.uid, last'.str[1])]_vars

\* a call that overwrote the oldest row while a younger row of another pair
\* was in the table
C1_Witness ==
  /\ last.op = "create_or_update_stock_note"
  /\ Cardinality(notes) >= 2
  /\ \E r \in last.out.val : r.id = 1 /\ r.note = "second" /\ r \in notes

----------------------------------------------------------------------------
(* Claims about the accounts *)

UserWithId(usrs, id) == CHOOSE u \in usrs : u.id = id

\* C5: authenticate_user returns the stored user exactly when the email is
\* registered and the password is the one it was registered with; for an
\* unknown email and for a wrong password alike it raises nothing and
\* returns the one value False, and POST /token answers both with the same
\* 401 response.
C5_Authenticate ==
  /\ last.op = "authenticate_user" =>
       IF <<last.str[1], last.str[2]>> \in creds
       THEN /\ last.out.py = "obj"
            /\ last.out.val \subseteq users
            /\ \A u \in last.out.val : u.email = last.str[1]
       ELSE last.out = RetFalse
  /\ last.op = "POST /token" =>
       IF <<last.str[1], last.str[2]>> \in creds
       THEN last.status = 200
       ELSE last.status = 401 /\ last.out = Raise("HTTPException", 401)

\* a failed authentication with a wrong password for a registered email,
\* while another email is still unknown
C5_Witness ==
  /\ last.op = "authenticate_user"
  /\ last.out = RetFalse
  /\ \E u \in users : u.email = last.str[1]
  /\ \E e \in Emails : \A u \in users : u.email # e

\* C7: a POST /users/ whose email is already registered is answered 400 and
\* adds no row; one whose email is not yet registered adds exactly one row
\* with that email; so no two user rows ever share an email.
C7_UniqueEmail ==
  /\ [](\A u1 \in users, u2 \in users : u1.email = u2.email => u1 = u2)
  /\ [][last'.op = "POST /users/" =>
          IF \E u \in users : u.email = last'.str[1]
          THEN last'.status = 400 /\ users' = users
          ELSE /\ last'.status = 200
               /\ \E u \in users' : /\ u \notin users
                                    /\ u.email = last'.str[1]
                                    /\ users' = users \cup {u}]_vars

\* a registration refused with 400 while two users are registered
C7_Witness ==
  /\ last.op = "POST /users/"
  /\ last.status = 400
  /\ Cardinality(users) = 2

\* C9: update_user_settings sets telegram_chat_id and telegram_bot_token to
\* the supplied value when it is not null and leaves each unchanged when it
\* is null; the user's id, email, password hash and active flag, and every
\* other user's row, stay as they were.
C9_PartialUpdate ==
  [][last'.op = "update_user_settings" =>
       LET old == UserWithId(users, last'.uid)
           new == UserWithId(users', last'.uid)
       IN /\ new.telegram_chat_id = IF last'.opt[1] # None THEN last'.opt[1] ELSE old.telegram_chat_id
          /\ new.telegram_bot_token = IF last'.opt[2] # None THEN last'.opt[2] ELSE old.telegram_bot_token
          /\ new.id = old.id /\ new.email = old.email
          /\ new.hashed_password = old.hashed_password
          /\ new.is_active = old.is_active
          /\ users' \ {new} = users \ {old}
          /\ last'.out = RetObj(new)]_vars

\* an update that supplied only the bot token to a user whose chat id was
\* already set, while a second user is stored
C9_Witness ==
  /\ last.op = "update_user_settings"
  /\ last.opt[1] = None /\ last.opt[2] # None
  /\ UserWithId(users, last.uid).telegram_chat_id # None
  /\ Cardinality(users) = 2

----------------------------------------------------------------------------
(* Claims about the tokens *)

\* the ttl a token was issued with: 15 minutes when none was given
TtlOf(i) == IF i.ttl = None THEN DefaultExpireMinutes ELSE i.ttl[1]

Registered(email) == \E u \in users : u.email = email

\* C3: for a token issued at t0 with ttl T for the email of an existing
\* user, get_current_user returns that user at every time t0 <= t <= t0+T
\* and fails at every time t > t0+T (T = 15 minutes when no ttl is given).
C3_TokenLifetime ==
  (/\ last.op = "get_current_user"
   /\ last.str[1] = "issued"
   /\ issued # None
   /\ Registered(issued[1].email))
  => IF now <= issued[1].t0 + TtlOf(issued[1])
     THEN /\ last.out.py = "obj"
          /\ \A u \in last.out.val : u \in users /\ u.email = issued[1].email
     ELSE last.out.kind = "raise"

\* C4: get_current_user either returns the existing user whose email is the
\* token's subject or fails with the 401 authentication error; a malformed
\* token, a bad signature, an expired token, a missing subject and an
\* unknown subject all end in that 401, and no other error is produced.
C4_ResolveOutcomes ==
  last.op = "get_current_user" =>
    LET tok == Presented(last.str[1])
        good == /\ tok.fmt = "jwt" /\ tok.key = "SECRET_KEY" /\ tok.exp >= now
                /\ tok.sub # None /\ Registered(tok.sub[1])
    IN IF good
       THEN /\ last.out.py = "obj"
            /\ \A u \in last.out.val : u \in users /\ u.email = tok.sub[1]
       ELSE last.out = Raise("HTTPException", 401)

----------------------------------------------------------------------------
(* Claims about the market data *)

UpstreamErrors == {"HTTPStatusError", "RequestError"}

\* C6: GET /stock/{symbol} is all-or-nothing: when some of the six calls
\* fail with an upstream or network error and the others succeed (or are
\* still running), the answer is HTTP 500 with no combined structure and no
\* partial result.
C6_AllOrNothing ==
  (/\ last.op = "GET /stock/{symbol}"
   /\ resp # None
   /\ \E k \in Kinds : calls[k] \in UpstreamErrors
   /\ \A k \in Kinds : calls[k] \in UpstreamErrors \cup {"ok", "inflight", "pending"})
  => resp[1] = Response(500, None)

\* the RSI call alone failed with a network error, the other five succeeded,
\* and the request was answered
C6_Witness ==
  /\ last.op = "GET /stock/{symbol}"
  /\ resp # None
  /\ calls["rsi"] = "RequestError"
  /\ \A k \in Kinds \ {"rsi"} : calls[k] = "ok"

\* C10: with the API key unset no upstream request is ever issued, every
\* market-data call that ran ended in the configuration error (ValueError),
\* and both GET /search/stock and GET /stock/{symbol} answer 400.
C10_KeyUnset ==
  api_key = None =>
    /\ requests = {}
    /\ \A k \in Kinds : calls[k] \in {"idle", "pending", "ValueError"}
    /\ last.op = "GET /search/stock" => last.str = <<"ValueError">> /\ resp # None
    /\ resp # None => resp[1] = Response(400, None)

\* the aggregate answered without a key, after all six calls had run
C10_Witness ==
  /\ api_key = None
  /\ last.op = "GET /stock/{symbol}"
  /\ resp # None
  /\ \A k \in Kinds : calls[k] = "ValueError"

----------------------------------------------------------------------------
(* Claims about the join *)

Reverse(sq) == [i \in DOMAIN sq |-> sq[Len(sq) + 1 - i]]

\* C11: GET /stock/{symbol} has join semantics: while no call has failed the
\* answer is produced only after all six calls have completed, and whatever
\* the order in which they completed it is a 200 whose body has exactly the
\* keys overview, earnings, daily_data, rsi, bbands and news_sentiment, each
\* holding the result of its own upstream call.
C11_Join ==
  (/\ last.op = "GET /stock/{symbol}"
   /\ resp # None
   /\ \A k \in Kinds : calls[k] \notin Failures)
  => /\ \A k \in Kinds : calls[k] = "ok"
     /\ {order[i] : i \in DOMAIN order} = Kinds
     /\ resp[1].status = 200
     /\ resp[1].body # None
     /\ DOMAIN resp[1].body[1] = Kinds
     /\ \A k \in Kinds : resp[1].body[1][k] = [function |-> FunctionOf(k)]

\* the six calls completed in the reverse of the order they were passed to
\* gather, and the request was answered
C11_Witness ==
  /\ last.op = "GET /stock/{symbol}"
  /\ resp # None
  /\ order = Reverse(KindSeq)

----------------------------------------------------------------------------
(* Claims about the storage handles *)

\* C12: every storage handle get_db opens for a request is eventually
\* closed, exactly once, whether the handler returns or fails with 400, 401,
\* 404, 500 or an unexpected exception; no request ends with its handle
\* open.
C12_HandleReleased ==
  /\ [](\A r \in Requests :
          /\ reqs[r].closed <= reqs[r].opened
          /\ reqs[r].opened <= 1
          /\ reqs[r].pc = "done" =>
               /\ reqs[r].closed = reqs[r].opened
               /\ UsesDb(reqs[r].route) => reqs[r].opened = 1)
  /\ \A r \in Requests :
       (reqs[r].opened = 1 /\ reqs[r].closed = 0) ~> (reqs[r].closed = 1)

\* a request that ended in an unhandled exception (answered 500) with its
\* handle closed, while another request still holds its handle open
C12_Witness ==
  \E r \in Requests, q \in Requests :
    /\ reqs[r].pc = "done"
    /\ reqs[r].out.kind = "raise" /\ reqs[r].out.exc # "HTTPException"
    /\ reqs[r].closed = 1
    /\ reqs[q].opened = 1 /\ reqs[q].closed = 0

----------------------------------------------------------------------------
(* Claims about concurrent upserts *)

\* C13: when two create_or_update_stock_note calls for the same (owner,
\* symbol) run at once on separate sessions, in whatever order their lookups
\* and commits interleave, they end with exactly one row for the pair, and
\* it holds the content of one of the two calls.
C13_OneRowUnderRace ==
  \A s \in Sessions, t \in Sessions :
    (/\ s # t
     /\ sess[s].pc = "done" /\ sess[t].pc = "done"
     /\ sess[s].uid = sess[t].uid /\ sess[s].symbol = sess[t].symbol)
    => /\ Cardinality(NotesOf(notes, sess[s].uid, sess[s].symbol)) = 1
       /\ \A r \in NotesOf(notes, sess[s].uid, sess[s].symbol) :
            r.note \in {sess[s].note, sess[t].note}

\* what the model does establish for two finished calls on one pair: two
\* rows exactly when both lookups ran before either commit and found
\* nothing, one row otherwise, and no content other than the two calls'
C13_TwoRowsAfterTwoMisses ==
  \A s \in Sessions, t \in Sessions :
    (/\ s # t
     /\ sess[s].pc = "done" /\ sess[t].pc = "done"
     /\ sess[s].uid = sess[t].uid /\ sess[s].symbol = sess[t].symbol)
    => LET n == NotesOf(notes, sess[s].uid, sess[s].symbol)
       IN /\ Cardinality(n) \in {1, 2}
          /\ Cardinality(n) = 2 <=>
               (sess[s].db_note.py = "None" /\ sess[t].db_note.py = "None")
          /\ \A r \in n : r.note \in {sess[s].note, sess[t].note}

====
